---------------------------- MODULE Spec2Model ----------------------------
(***************************************************************************)
(* A model of the JSON-RPC 2.0 client of DjangoJRPC (jrpc_client):         *)
(*   client.py  UrlParser, VersionValidator, HttpTransport,                *)
(*              WebSocketTransport, JrpcServer                             *)
(*   forms.py   JrpcClientForm                                             *)
(*   views.py   JrpcClientView.post and _decode_jrpc_error                 *)
(* Texts (JSON documents, URLs) are sequences of tokens; json.dumps,       *)
(* json.loads and urlparse are computed on them.  Python's None is the     *)
(* empty sequence where a value is optional, and JNull for a JSON value.   *)
(***************************************************************************)
EXTENDS Integers, Sequences, FiniteSets, TLC

(***************************************************************************)
(* JSON values, as Python's json module builds them: None, bool, int, str, *)
(* list, dict.  One record shape for all of them.                          *)
(***************************************************************************)
JNull == [t |-> "null", n |-> 0, s |-> "", keys |-> <<>>, items |-> <<>>]
JBool(b) == [t |-> "bool", n |-> IF b THEN 1 ELSE 0, s |-> "", keys |-> <<>>, items |-> <<>>]
JNum(n) == [t |-> "num", n |-> n, s |-> "", keys |-> <<>>, items |-> <<>>]
JStr(s) == [t |-> "str", n |-> 0, s |-> s, keys |-> <<>>, items |-> <<>>]
JArr(items) == [t |-> "arr", n |-> 0, s |-> "", keys |-> <<>>, items |-> items]
JObj(keys, items) == [t |-> "obj", n |-> 0, s |-> "", keys |-> keys, items |-> items]

\* key in d, for a dict d
JHas(d, key) == \E i \in 1..Len(d.keys) : d.keys[i] = key

\* d[key], for a dict d that has the key (the last occurrence wins, as in a dict)
JAt(d, key) ==
    LET i == CHOOSE j \in 1..Len(d.keys) :
                 /\ d.keys[j] = key
                 /\ \A k \in (j+1)..Len(d.keys) : d.keys[k] # key
    IN d.items[i]

\* d.get(key, default)
JGet(d, key, default) == IF JHas(d, key) THEN JAt(d, key) ELSE default

\* bool(v): Python's truth value of a JSON value
Truthy(v) ==
    CASE v.t = "null" -> FALSE
      [] v.t = "bool" -> v.n = 1
      [] v.t = "num"  -> v.n # 0
      [] v.t = "str"  -> v.s # ""
      [] OTHER        -> Len(v.items) > 0

(***************************************************************************)
(* JSON text: a sequence of tokens.                                        *)
(***************************************************************************)
Punct(c) == [k |-> "punct", s |-> c, n |-> 0]
StrTok(s) == [k |-> "str", s |-> s, n |-> 0]
NumTok(n) == [k |-> "num", s |-> "", n |-> n]
Word(w) == [k |-> "word", s |-> w, n |-> 0]

RECURSIVE Dumps(_)
RECURSIVE DumpItems(_, _)
RECURSIVE DumpMembers(_, _, _)

\* json.dumps(v)
Dumps(v) ==
    CASE v.t = "null" -> <<Word("null")>>
      [] v.t = "bool" -> <<Word(IF v.n = 1 THEN "true" ELSE "false")>>
      [] v.t = "num"  -> <<NumTok(v.n)>>
      [] v.t = "str"  -> <<StrTok(v.s)>>
      [] v.t = "arr"  -> <<Punct("[")>> \o DumpItems(v.items, 1) \o <<Punct("]")>>
      [] OTHER        -> <<Punct("{")>> \o DumpMembers(v.keys, v.items, 1) \o <<Punct("}")>>

DumpItems(items, i) ==
    IF i > Len(items) THEN <<>>
    ELSE Dumps(items[i])
         \o (IF i < Len(items) THEN <<Punct(",")>> ELSE <<>>)
         \o DumpItems(items, i + 1)

DumpMembers(keys, items, i) ==
    IF i > Len(keys) THEN <<>>
    ELSE <<StrTok(keys[i]), Punct(":")>> \o Dumps(items[i])
         \o (IF i < Len(keys) THEN <<Punct(",")>> ELSE <<>>)
         \o DumpMembers(keys, items, i + 1)

Parsed(v, next) == [ok |-> TRUE, val |-> v, next |-> next]
ParseFail == [ok |-> FALSE, val |-> JNull, next |-> 0]
IsPunct(toks, i, c) == i <= Len(toks) /\ toks[i].k = "punct" /\ toks[i].s = c

RECURSIVE ParseValue(_, _)
RECURSIVE ParseItems(_, _, _)
RECURSIVE ParseMembers(_, _, _, _)

\* The JSON value that starts at token i, and the place after it
ParseValue(toks, i) ==
    IF i > Len(toks) THEN ParseFail
    ELSE LET tk == toks[i] IN
         CASE tk.k = "str" -> Parsed(JStr(tk.s), i + 1)
           [] tk.k = "num" -> Parsed(JNum(tk.n), i + 1)
           [] tk.k = "word" ->
                CASE tk.s = "null"  -> Parsed(JNull, i + 1)
                  [] tk.s = "true"  -> Parsed(JBool(TRUE), i + 1)
                  [] tk.s = "false" -> Parsed(JBool(FALSE), i + 1)
                  [] OTHER          -> ParseFail
           [] OTHER ->
                CASE tk.s = "[" ->
                       IF IsPunct(toks, i + 1, "]") THEN Parsed(JArr(<<>>), i + 2)
                       ELSE ParseItems(toks, i + 1, <<>>)
                  [] tk.s = "{" ->
                       IF IsPunct(toks, i + 1, "}") THEN Parsed(JObj(<<>>, <<>>), i + 2)
                       ELSE ParseMembers(toks, i + 1, <<>>, <<>>)
                  [] OTHER -> ParseFail

\* value ("," value)* "]"
ParseItems(toks, i, acc) ==
    LET r == ParseValue(toks, i) IN
    IF ~r.ok THEN ParseFail
    ELSE IF IsPunct(toks, r.next, ",") THEN ParseItems(toks, r.next + 1, Append(acc, r.val))
    ELSE IF IsPunct(toks, r.next, "]") THEN Parsed(JArr(Append(acc, r.val)), r.next + 1)
    ELSE ParseFail

\* string ":" value ("," string ":" value)* "}"
ParseMembers(toks, i, keys, acc) ==
    IF ~(i <= Len(toks) /\ toks[i].k = "str" /\ IsPunct(toks, i + 1, ":")) THEN ParseFail
    ELSE LET r == ParseValue(toks, i + 2) IN
         IF ~r.ok THEN ParseFail
         ELSE IF IsPunct(toks, r.next, ",")
              THEN ParseMembers(toks, r.next + 1, Append(keys, toks[i].s), Append(acc, r.val))
         ELSE IF IsPunct(toks, r.next, "}")
              THEN Parsed(JObj(Append(keys, toks[i].s), Append(acc, r.val)), r.next + 1)
         ELSE ParseFail

\* json.loads(text): the value, or a JSONDecodeError (ok = FALSE)
Loads(toks) ==
    LET r == ParseValue(toks, 1) IN
    IF r.ok /\ r.next = Len(toks) + 1 THEN [ok |-> TRUE, val |-> r.val]
    ELSE [ok |-> FALSE, val |-> JNull]

(***************************************************************************)
(* URLs: a URL string is a sequence of pieces, "http" ":" "//" host ...    *)
(* None is <<>> and a present value v is <<v>> (host, port, credentials).  *)
(***************************************************************************)
None == <<>>
Some(v) == <<v>>

\* the pieces that start with "/" and so end the network location
PathPieces == {"/api", "/api/v2/"}
\* the pieces made only of the characters a scheme may hold
SchemeWords == {"http", "https", "ftp", "HTTP", "HTTPS", "Ftp", "ws"}

\* str.lower()
Lower(s) ==
    CASE s = "HTTP" -> "http"
      [] s = "HTTPS" -> "https"
      [] s = "Ftp" -> "ftp"
      [] s = "Example.COM" -> "example.com"
      [] OTHER -> s

\* int(s) of a port's digits
ToInt(s) ==
    CASE s = "8443" -> 8443
      [] s = "8080" -> 8080
      [] OTHER -> 0

RECURSIVE NetlocLen(_, _)
\* how many pieces from place i on belong to the network location
NetlocLen(pieces, i) ==
    IF i > Len(pieces) \/ pieces[i] \in PathPieces THEN 0
    ELSE 1 + NetlocLen(pieces, i + 1)

\* urllib.parse.urlparse(url): never fails on these inputs
Urlparse(url) ==
    LET hasScheme == Len(url) >= 2 /\ url[1] \in SchemeWords /\ url[2] = ":"
        rest == IF hasScheme THEN SubSeq(url, 3, Len(url)) ELSE url
        hasNetloc == Len(rest) >= 1 /\ rest[1] = "//"
        n == IF hasNetloc THEN NetlocLen(rest, 2) ELSE 0
    IN [scheme |-> IF hasScheme THEN url[1] ELSE "",
        netloc |-> IF hasNetloc THEN SubSeq(rest, 2, n + 1) ELSE <<>>,
        path   |-> IF hasNetloc THEN SubSeq(rest, n + 2, Len(rest)) ELSE rest]

\* UrlParser(url)
UrlParser(url) == [url |-> url, parsed_url |-> Urlparse(url)]

\* UrlParser.scheme
UrlScheme(up) == Lower(up.parsed_url.scheme)

\* UrlParser.host: ParseResult.hostname, None when the host is empty
UrlHost(up) ==
    LET nl == up.parsed_url.netloc IN
    IF Len(nl) = 0 \/ nl[1] = ":" THEN None ELSE Some(Lower(nl[1]))

\* UrlParser.port: ParseResult.port, None when no port is written
UrlPort(up) ==
    LET nl == up.parsed_url.netloc IN
    IF \E i \in 1..(Len(nl) - 1) : nl[i] = ":"
    THEN LET i == CHOOSE j \in 1..(Len(nl) - 1) : nl[j] = ":" IN Some(ToInt(nl[i + 1]))
    ELSE None

\* UrlParser.path
UrlPath(up) == up.parsed_url.path

(***************************************************************************)
(* Exceptions: the class, the message's fixed text and what it quotes.     *)
(***************************************************************************)
NoError == [exc |-> "", msg |-> "", arg |-> "", val |-> JNull]
Error(exc, msg) == [exc |-> exc, msg |-> msg, arg |-> "", val |-> JNull]
VersionError(version) ==
    [exc |-> "ValueError", msg |-> "Version \"{}\" is not supported", arg |-> version, val |-> JNull]
SchemeError(scheme) ==
    [exc |-> "ValueError", msg |-> "Scheme \"{}\" is not supported. Use \"http\" or \"https\".",
     arg |-> scheme, val |-> JNull]
ParamsError(params) ==
    [exc |-> "ValueError", msg |-> "Params \"{}\" are invalid", arg |-> "", val |-> params]

\* VersionValidator.validate(version)
SupportedVersions == {"2.0"}
VersionValidate(version) ==
    IF version \notin SupportedVersions
    THEN [ok |-> FALSE, val |-> "", err |-> VersionError(version)]
    ELSE [ok |-> TRUE, val |-> version, err |-> NoError]

\* (mutant) the constructor stores the version without validating it
JrpcServerInitUnchecked(url, version, transport, certfile, keyfile) ==
    [ok |-> TRUE, err |-> NoError,
     self |-> Some([url_parser |-> UrlParser(url), version |-> version,
                    transport |-> transport,
                    certfile |-> certfile, keyfile |-> keyfile])]

\* JrpcServer.__init__: the instance, or the exception of the version check
JrpcServerInit(url, version, transport, certfile, keyfile) ==
    LET url_parser == UrlParser(url)
        v == VersionValidate(version)
    IN IF ~v.ok THEN [ok |-> FALSE, self |-> None, err |-> v.err]
       ELSE [ok |-> TRUE, err |-> NoError,
             self |-> Some([url_parser |-> url_parser, version |-> v.val,
                            transport |-> transport,
                            certfile |-> certfile, keyfile |-> keyfile])]

(***************************************************************************)
(* views.py: JrpcClientView._decode_jrpc_error                             *)
(***************************************************************************)
PARSE_ERROR == -32700
INVALID_REQUEST == -32600
METHOD_NOT_FOUND == -32601
INVALID_PARAMS == -32602
INTERNAL_ERROR == -32603
SERVER_ERROR_LO == -32099
SERVER_ERROR_HI == -32000
DEFAULT_CODE == -1

Fixed(head, text) == [head |-> head, text |-> text, echo |-> <<>>]
Echo(head, message, details) == [head |-> head, text |-> "", echo |-> <<message, details>>]
NoMessage == Fixed("", "")

\* (mutant) the reserved range without its lower end
DecodeByCodeOpenRange(error_code, error_message, error_details) ==
    IF error_code = PARSE_ERROR
    THEN Fixed("Parse error", "Invalid JSON was received by the server.")
    ELSE IF error_code = INVALID_REQUEST
    THEN Fixed("Invalid Request", "The JSON sent is not a valid Request object.")
    ELSE IF error_code = METHOD_NOT_FOUND
    THEN Fixed("Method not found", "The method does not exist or is not available.")
    ELSE IF error_code = INVALID_PARAMS
    THEN Fixed("Invalid params", "Invalid method parameter(s).")
    ELSE IF error_code = INTERNAL_ERROR
    THEN Fixed("Internal error", "Internal JSON-RPC error.")
    ELSE IF SERVER_ERROR_LO < error_code /\ error_code <= SERVER_ERROR_HI
    THEN Echo("Server error", error_message, error_details)
    ELSE Echo("Unknown error", error_message, error_details)

\* The message for an error whose code is the integer error_code
DecodeByCode(error_code, error_message, error_details) ==
    IF error_code = PARSE_ERROR
    THEN Fixed("Parse error", "Invalid JSON was received by the server.")
    ELSE IF error_code = INVALID_REQUEST
    THEN Fixed("Invalid Request", "The JSON sent is not a valid Request object.")
    ELSE IF error_code = METHOD_NOT_FOUND
    THEN Fixed("Method not found", "The method does not exist or is not available.")
    ELSE IF error_code = INVALID_PARAMS
    THEN Fixed("Invalid params", "Invalid method parameter(s).")
    ELSE IF error_code = INTERNAL_ERROR
    THEN Fixed("Internal error", "Internal JSON-RPC error.")
    ELSE IF SERVER_ERROR_LO <= error_code /\ error_code <= SERVER_ERROR_HI
    THEN Echo("Server error", error_message, error_details)
    ELSE Echo("Unknown error", error_message, error_details)

\* _decode_jrpc_error(error_data): error_data.get needs a dict (AttributeError
\* otherwise), and the range comparison needs a number (TypeError otherwise;
\* a bool is an int in Python).
DecodeJrpcError(error_data) ==
    IF error_data.t # "obj"
    THEN [ok |-> FALSE, msg |-> NoMessage, err |-> Error("AttributeError", "no attribute 'get'")]
    ELSE LET error_code == JGet(error_data, "code", JNum(DEFAULT_CODE))
             error_message == JGet(error_data, "message", JStr("Unknown error"))
             error_details == JGet(error_data, "data", JObj(<<>>, <<>>))
         IN IF error_code.t \notin {"num", "bool"}
            THEN [ok |-> FALSE, msg |-> NoMessage,
                  err |-> Error("TypeError", "'<=' not supported")]
            ELSE [ok |-> TRUE, err |-> NoError,
                  msg |-> DecodeByCode(error_code.n, error_message, error_details)]

(***************************************************************************)
(* forms.py: JrpcClientForm.  A submitted field is its text and the number *)
(* of characters of it (after CharField's strip).                          *)
(***************************************************************************)
METHOD_MAX_LENGTH == 100
PARAMS_MAX_LENGTH == 1000

\* isinstance(v, (dict, list, NoneType))
IsDictListNone(v) == v.t \in {"obj", "arr", "null"}

\* CharField(max_length=100, required=True).clean
CleanMethod(method) ==
    IF method.len = 0 THEN {"required"}
    ELSE IF method.len > METHOD_MAX_LENGTH THEN {"max_length"}
    ELSE {}

\* CharField(max_length=1000, required=False).clean, then clean_params
CleanParams(params) ==
    IF params.len > PARAMS_MAX_LENGTH THEN {"max_length"}
    ELSE IF params.len = 0 THEN {}
    ELSE LET json_params == Loads(params.text) IN
         IF ~json_params.ok THEN {"Params must be a JSON format."}
         ELSE IF ~IsDictListNone(json_params.val) THEN {"Params \"{}\" are invalids"}
         ELSE {}

\* form.errors: the fields that failed, each with its errors
FormErrors(data) ==
    [method |-> CleanMethod(data.method), params |-> CleanParams(data.params)]

\* form.is_valid()
FormIsValid(data) == FormErrors(data).method = {} /\ FormErrors(data).params = {}

(***************************************************************************)
(* The state.                                                              *)
(*   th       each caller (thread): the JrpcServer it holds, the operation *)
(*            it is in, its place in it (pc) and that operation's locals   *)
(*   conns    every connection object created, in order of creation        *)
(*   files    the temporary files on disk                                  *)
(*   ncalls   the transport calls started so far                           *)
(*   tmpseq   the temporary names handed out so far                        *)
(*   settings settings.JRPC_CERT, settings.JRPC_KEY of the hosting project *)
(*   dec      the argument and the result of a lone _decode_jrpc_error     *)
(***************************************************************************)
VARIABLES th, conns, files, ncalls, tmpseq, settings, dec

vars == <<th, conns, files, ncalls, tmpseq, settings, dec>>

\* how many transport calls a behaviour makes
MaxCalls == 2

Threads == DOMAIN th

NoForm == [method |-> [text |-> "", len |-> 0], params |-> [text |-> <<>>, len |-> 0]]
NoErrors == [method |-> {}, params |-> {}]
NoResponse == [status |-> 0, errors |-> NoErrors, error |-> NoMessage, data |-> JNull]
NoContext == [made |-> FALSE, chain |-> <<>>]

\* A caller between operations: a program that uses the client ("library") or
\* the worker that runs the view ("web"), holding `server` (None or a JrpcServer)
Idle(role, server) ==
    [role |-> role, pc |-> "idle", op |-> "none", server |-> server,
     url |-> <<>>, cversion |-> "",
     transport |-> "", scheme |-> "", host |-> None, port |-> None, path |-> <<>>,
     method |-> "", params |-> JNull, id_arg |-> None, call_id |-> 0, version |-> "",
     certdata |-> None, keydata |-> None,
     call |-> 0, conn |-> 0, context |-> NoContext, certfile |-> 0, keyfile |-> 0,
     payload |-> <<>>, headers |-> <<>>, sent |-> <<>>,
     data |-> <<>>, result |-> JNull, err |-> NoError, stdout |-> <<>>,
     form |-> NoForm, response |-> NoResponse]

NoDecode == [pc |-> "none", error_data |-> JNull, ok |-> FALSE, msg |-> NoMessage]

(***************************************************************************)
(* The inputs.                                                             *)
(***************************************************************************)
HttpUrl == <<"http", ":", "//", "example.com", "/api">>
HttpsUrl == <<"https", ":", "//", "example.com", "/api">>
\* views.py: JrpcClientView.jrpc_url
ViewUrl == <<"https", ":", "//", "slb.medv.ru", "/api/v2/">>

ServerCfg(url, transport, certfile, keyfile) ==
    [url |-> url, transport |-> transport, certfile |-> certfile, keyfile |-> keyfile]

ServerConfigs ==
    { ServerCfg(HttpUrl, "http", None, None),
      ServerCfg(HttpsUrl, "http", None, None),
      ServerCfg(HttpsUrl, "http", Some("CERT_PEM"), Some("KEY_PEM")),
      ServerCfg(HttpsUrl, "http", Some("NOT_A_PEM"), Some("KEY_PEM")),
      ServerCfg(HttpsUrl, "http", Some("CERT_PEM"), None),
      ServerCfg(HttpUrl, "http", Some("CERT_PEM"), Some("KEY_PEM")),
      ServerCfg(<<"HTTPS", ":", "//", "Example.COM", ":", "8443", "/api">>, "http", None, None),
      ServerCfg(<<"ftp", ":", "//", "example.com", "/api">>, "http", None, None),
      ServerCfg(<<"Ftp", ":", "//", "example.com", "/api">>, "http",
                Some("CERT_PEM"), Some("KEY_PEM")),
      ServerCfg(<<"example.com", "/api">>, "http", None, None),
      ServerCfg(<<"//", "example.com", "/api">>, "http", None, None),
      ServerCfg(<<"http", ":", "//", "/api">>, "http", None, None),
      ServerCfg(<<"https", ":", "//", "/api">>, "http", Some("CERT_PEM"), Some("KEY_PEM")),
      ServerCfg(<<"ws", ":", "//", "example.com", "/api">>, "websocket", None, None) }

Versions == {"2.0", "1.0", ""}
Methods == {"test_method"}
ParamsValues ==
    { JNull,
      JObj(<<"param">>, <<JStr("value")>>),
      JObj(<<>>, <<>>),
      JArr(<<JNum(1), JStr("a")>>),
      JArr(<<>>),
      JStr("not-an-object"),
      JNum(0) }
\* call_id as the caller passes it: left out, or given
CallIds == {None, Some(7)}
\* def call_method(self, method, params=None, call_id: int = 1)
DEFAULT_CALL_ID == 1

SettingsChoices ==
    { [JRPC_CERT |-> None, JRPC_KEY |-> None],
      [JRPC_CERT |-> Some("CERT_PEM"), JRPC_KEY |-> Some("KEY_PEM")] }

ErrorObject(code, message, data) ==
    JObj(<<"code", "message", "data">>, <<code, message, data>>)
RpcResult(result) == JObj(<<"jsonrpc", "result", "id">>, <<JStr("2.0"), result, JNum(1)>>)
RpcError(error) == JObj(<<"jsonrpc", "error", "id">>, <<JStr("2.0"), error, JNum(1)>>)

\* What a server may answer, as JSON values
ResponseValues ==
    { RpcResult(JStr("success")),
      RpcError(ErrorObject(JNum(PARSE_ERROR), JStr("m"), JNull)),
      RpcError(ErrorObject(JNum(-32050), JStr("busy"), JArr(<<JNum(1)>>))),
      RpcError(ErrorObject(JNum(-32100), JStr("m"), JNull)),
      RpcError(JObj(<<>>, <<>>)),
      RpcError(JObj(<<"code">>, <<JStr("E42")>>)),
      RpcError(JObj(<<"code">>, <<JBool(TRUE)>>)),
      RpcError(JStr("boom")),
      JObj(<<"jsonrpc", "result", "error", "id">>,
           <<JStr("2.0"), JStr("success"),
             ErrorObject(JNum(INTERNAL_ERROR), JStr("m"), JNull), JNum(1)>>),
      JArr(<<>>),
      JArr(<<JStr("error")>>),
      JStr("error"),
      JNum(5) }

\* A response body: bytes that are UTF-8 text or not
Body(utf8, text) == [utf8 |-> utf8, text |-> text]
ResponseBodies ==
    { Body(TRUE, Dumps(v)) : v \in ResponseValues }
    \cup { Body(TRUE, <<Word("<html>")>>),
           Body(TRUE, <<Punct("{"), StrTok("result"), Punct(":")>>),
           Body(FALSE, <<>>) }

Field(text, len) == [text |-> text, len |-> len]
FormMethods == { Field("", 0), Field("ping", 4), Field("a_very_long_method_name", 101) }
FormParams ==
    { Field(<<>>, 0),
      Field(<<Word("some_params")>>, 11),
      Field(<<NumTok(123)>>, 3),
      Field(<<StrTok("text")>>, 6),
      Field(<<Word("null")>>, 4),
      Field(Dumps(JObj(<<"a">>, <<JNum(1)>>)), 8),
      Field(Dumps(JArr(<<>>)), 2),
      Field(Dumps(JArr(<<JNum(1)>>)), 1001) }

(***************************************************************************)
(* client.py: JrpcServer                                                   *)
(***************************************************************************)
Goto(t, frame) == th' = [th EXCEPT ![t] = frame]

\* An exception leaves the operation the caller is in
Raise(t, e) == Goto(t, [th[t] EXCEPT !.pc = "raised", !.err = e])

\* server = JrpcServer(url, version, transport, certfile, keyfile), by a caller
\* that holds none: the name is bound only if the constructor returns
Construct(t) ==
    /\ th[t].role = "library"
    /\ th[t].pc = "idle"
    /\ th[t].server = None
    /\ \E cfg \in ServerConfigs, version \in Versions :
         LET r == JrpcServerInit(cfg.url, version, cfg.transport, cfg.certfile, cfg.keyfile)
             server == IF r.ok THEN r.self ELSE th[t].server
         IN Goto(t, [Idle(th[t].role, server) EXCEPT !.pc = IF r.ok THEN "returned" ELSE "raised",
                                         !.op = "construct", !.url = cfg.url,
                                         !.cversion = version, !.err = r.err])
    /\ UNCHANGED <<conns, files, ncalls, tmpseq, settings, dec>>

\* JrpcServer.call_method up to the transport's call: the arguments it passes
\* (id_arg is call_id as the caller gave it, None for the default)
CallFrame(old, self, method, params, id_arg, op, n) ==
    [old EXCEPT !.pc = IF self.transport = "http" THEN "validate_scheme" ELSE "websocket_call",
                !.op = op,
                !.transport = self.transport,
                !.scheme = UrlScheme(self.url_parser),
                !.host = UrlHost(self.url_parser),
                !.port = UrlPort(self.url_parser),
                !.path = UrlPath(self.url_parser),
                !.version = self.version,
                !.method = method,
                !.params = params,
                !.id_arg = id_arg,
                !.call_id = IF id_arg = None THEN DEFAULT_CALL_ID ELSE id_arg[1],
                !.certdata = self.certfile,
                !.keydata = self.keyfile,
                !.call = n]

\* server.call_method(method, params, call_id), params and call_id optional
CallMethod(t) ==
    /\ th[t].pc = "idle"
    /\ th[t].server # None
    /\ ncalls < MaxCalls
    /\ \E method \in Methods, params \in ParamsValues, id \in CallIds :
         Goto(t, CallFrame(Idle(th[t].role, th[t].server), th[t].server[1], method, params,
                           id, "call", ncalls + 1))
    /\ ncalls' = ncalls + 1
    /\ UNCHANGED <<conns, files, tmpseq, settings, dec>>

(***************************************************************************)
(* client.py: WebSocketTransport.call                                      *)
(***************************************************************************)
WebSocketCall(t) ==
    /\ th[t].pc = "websocket_call"
    /\ Goto(t, [th[t] EXCEPT
                  !.pc = "returned",
                  !.stdout = <<"WebSocket call to", th[t].scheme, th[t].host, th[t].port>>,
                  !.result = JObj(<<"jsonrpc", "result", "id">>,
                                  <<JStr("2.0"), JStr("pong"), JNum(1)>>)])
    /\ UNCHANGED <<conns, files, ncalls, tmpseq, settings, dec>>

(***************************************************************************)
(* client.py: HttpTransport.call, one action per statement that can fail.  *)
(***************************************************************************)
\* (mutant) the test lets every scheme but the empty one through
SchemeSupportedAnyNamed(scheme) == scheme # ""

\* _validate_scheme's test
SchemeSupported(scheme) == scheme \in {"http", "https"}

\* self._validate_scheme(scheme)
ValidateScheme(t) ==
    /\ th[t].pc = "validate_scheme"
    /\ IF ~SchemeSupported(th[t].scheme)
       THEN Raise(t, SchemeError(th[t].scheme))
       ELSE Goto(t, [th[t] EXCEPT !.pc = "create_connection"])
    /\ UNCHANGED <<conns, files, ncalls, tmpseq, settings, dec>>

\* A new, unconnected connection object of class kind for the call
Connection(call, kind, host, port, chain) ==
    [call |-> call, kind |-> kind, host |-> host, port |-> port, chain |-> chain,
     state |-> "new", reqs |-> <<>>]

\* (mutant) the connection is created whatever the host is
NewConnectionAnyHost(t, kind) ==
    /\ conns' = Append(conns, Connection(th[t].call, kind,
                                         IF th[t].host = None THEN "" ELSE th[t].host[1],
                                         th[t].port, th[t].context.chain))
    /\ Goto(t, [th[t] EXCEPT !.pc = "create_payload", !.conn = Len(conns) + 1])

\* http.client.HTTP(S)Connection(host, port): the constructor reads the host
NewConnection(t, kind) ==
    IF th[t].host = None
    THEN /\ Raise(t, IF th[t].port = None
                     THEN Error("AttributeError", "'NoneType' object has no attribute 'rfind'")
                     ELSE Error("TypeError", "expected string or bytes-like object"))
         /\ UNCHANGED conns
    ELSE /\ conns' = Append(conns, Connection(th[t].call, kind, th[t].host[1], th[t].port,
                                              th[t].context.chain))
         /\ Goto(t, [th[t] EXCEPT !.pc = "create_payload", !.conn = Len(conns) + 1])

\* _create_connection: https goes through _create_ssl_context first
CreateConnection(t) ==
    /\ th[t].pc = "create_connection"
    /\ IF th[t].scheme = "https"
       THEN /\ Goto(t, [th[t] EXCEPT !.pc = "create_ssl_context"])
            /\ UNCHANGED conns
       ELSE NewConnection(t, "HTTPConnection")
    /\ UNCHANGED <<files, ncalls, tmpseq, settings, dec>>

\* bool(s) of an Optional[str]
StrTruthy(s) == s # None /\ s[1] # ""

\* if certdata and keydata
UsesCredentials(certdata, keydata) == StrTruthy(certdata) /\ StrTruthy(keydata)

\* _create_ssl_context: ssl.create_default_context(ssl.Purpose.SERVER_AUTH)
CreateSslContext(t) ==
    /\ th[t].pc = "create_ssl_context"
    /\ Goto(t, [th[t] EXCEPT !.context = [made |-> TRUE, chain |-> <<>>],
                             !.pc = IF UsesCredentials(th[t].certdata, th[t].keydata)
                                    THEN "create_temp_cert_key_files"
                                    ELSE "https_connection"])
    /\ UNCHANGED <<conns, files, ncalls, tmpseq, settings, dec>>

TempFile(name, data, call) == [name |-> name, data |-> data, call |-> call]

\* tempfile.NamedTemporaryFile(delete=False): a new, empty file under the next
\* name of tempfile's name sequence; the file stays when its object is dropped
NamedTemporaryFile(disk, name, call) == disk \cup {TempFile(name, "", call)}

\* (mutant) the write lands in every temporary file, whatever its name
WriteEveryFile(disk, name, data) == { [f EXCEPT !.data = data] : f \in disk }

\* f.write(data.encode('utf-8')); f.flush(): the file of that name holds data
WriteFile(disk, name, data) ==
    { IF f.name = name THEN [f EXCEPT !.data = data] ELSE f : f \in disk }

\* _create_temp_cert_key_files: certfile = tempfile.NamedTemporaryFile(delete=False)
CreateTempCertKeyFiles(t) ==
    /\ th[t].pc = "create_temp_cert_key_files"
    /\ files' = NamedTemporaryFile(files, tmpseq + 1, th[t].call)
    /\ Goto(t, [th[t] EXCEPT !.pc = "create_keyfile", !.certfile = tmpseq + 1])
    /\ tmpseq' = tmpseq + 1
    /\ UNCHANGED <<conns, ncalls, settings, dec>>

\* keyfile = tempfile.NamedTemporaryFile(delete=False)
CreateKeyFile(t) ==
    /\ th[t].pc = "create_keyfile"
    /\ files' = NamedTemporaryFile(files, tmpseq + 1, th[t].call)
    /\ Goto(t, [th[t] EXCEPT !.pc = "write_certfile", !.keyfile = tmpseq + 1])
    /\ tmpseq' = tmpseq + 1
    /\ UNCHANGED <<conns, ncalls, settings, dec>>

\* certfile.write(certdata.encode('utf-8')); certfile.flush()
WriteCertFile(t) ==
    /\ th[t].pc = "write_certfile"
    /\ files' = WriteFile(files, th[t].certfile, th[t].certdata[1])
    /\ Goto(t, [th[t] EXCEPT !.pc = "write_keyfile"])
    /\ UNCHANGED <<conns, ncalls, tmpseq, settings, dec>>

\* keyfile.write(keydata.encode('utf-8')); keyfile.flush(); return certfile, keyfile
WriteKeyFile(t) ==
    /\ th[t].pc = "write_keyfile"
    /\ files' = WriteFile(files, th[t].keyfile, th[t].keydata[1])
    /\ Goto(t, [th[t] EXCEPT !.pc = "load_cert_chain"])
    /\ UNCHANGED <<conns, ncalls, tmpseq, settings, dec>>

\* What is stored under a name, None if nothing is
FileData(name) ==
    IF \E f \in files : f.name = name
    THEN Some((CHOOSE f \in files : f.name = name).data)
    ELSE None

\* load_cert_chain accepts a certificate together with its own private key, both PEM
ValidChain(cert, key) ==
    <<cert, key>> \in { <<Some("CERT_PEM"), Some("KEY_PEM")>>,
                        <<Some("CERT_PEM_2"), Some("KEY_PEM_2")>> }

\* context.load_cert_chain(certfile.name, keyfile.name)
LoadCertChain(t) ==
    /\ th[t].pc = "load_cert_chain"
    /\ LET cert == FileData(th[t].certfile)
           key  == FileData(th[t].keyfile)
       IN IF ValidChain(cert, key)
          THEN Goto(t, [th[t] EXCEPT !.pc = "https_connection",
                                     !.context = [made |-> TRUE, chain |-> <<cert[1], key[1]>>]])
          ELSE Raise(t, Error("ssl.SSLError", "PEM lib"))
    /\ UNCHANGED <<conns, files, ncalls, tmpseq, settings, dec>>

\* return http.client.HTTPSConnection(host, port, context=context)
HttpsConnection(t) ==
    /\ th[t].pc = "https_connection"
    /\ NewConnection(t, "HTTPSConnection")
    /\ UNCHANGED <<files, ncalls, tmpseq, settings, dec>>

\* (mutant) the test lets a str through
ParamsValidOrStr(params) == IsDictListNone(params) \/ params.t = "str"

\* _create_payload's test: isinstance(params, (dict, list, NoneType))
ParamsValid(params) == IsDictListNone(params)

\* params or {}
ParamsOrEmpty(params) == IF Truthy(params) THEN params ELSE JObj(<<>>, <<>>)

\* (mutant) the id is always the default one
PayloadDictDefaultId(method, params, call_id, version) ==
    JObj(<<"jsonrpc", "method", "params", "id">>,
         <<JStr(version), JStr(method), ParamsOrEmpty(params), JNum(DEFAULT_CALL_ID)>>)

\* The dict _create_payload serializes
PayloadDict(method, params, call_id, version) ==
    JObj(<<"jsonrpc", "method", "params", "id">>,
         <<JStr(version), JStr(method), ParamsOrEmpty(params), JNum(call_id)>>)

\* _create_headers()
CreateHeaders == <<<<"Content-Type", "application/json">>>>

\* payload = self._create_payload(...); headers = self._create_headers()
CreatePayload(t) ==
    /\ th[t].pc = "create_payload"
    /\ IF ~ParamsValid(th[t].params)
       THEN Raise(t, ParamsError(th[t].params))
       ELSE Goto(t, [th[t] EXCEPT
                       !.pc = "request",
                       !.payload = Dumps(PayloadDict(th[t].method, th[t].params,
                                                     th[t].call_id, th[t].version)),
                       !.headers = CreateHeaders])
    /\ UNCHANGED <<conns, files, ncalls, tmpseq, settings, dec>>

HttpRequest(verb, url, body, headers) ==
    [verb |-> verb, url |-> url, body |-> body, headers |-> headers]

\* (mutant) a failed request is tried once more on a new connection
RequestRetry(t) ==
    /\ th[t].pc = "request"
    /\ LET c == th[t].conn IN
       \/ /\ conns' = [conns EXCEPT ![c].state = "open",
                                    ![c].reqs = Append(@, th[t].call)]
          /\ Goto(t, [th[t] EXCEPT
                        !.pc = "getresponse",
                        !.sent = Append(@, HttpRequest("POST", th[t].path, th[t].payload,
                                                       th[t].headers))])
       \/ /\ \E opened \in BOOLEAN :
                conns' = [conns EXCEPT ![c].state = IF opened THEN "open" ELSE @]
          /\ IF Cardinality({i \in DOMAIN conns : conns[i].call = th[t].call}) < 2
             THEN Goto(t, [th[t] EXCEPT !.pc = "create_connection"])
             ELSE Raise(t, Error("OSError", "request failed"))
    /\ UNCHANGED <<files, ncalls, tmpseq, settings, dec>>

\* conn.request("POST", url, body=payload, headers=headers): connects, then sends.
\* The network decides: sent, or OSError before or after the socket is open.
Request(t) ==
    /\ th[t].pc = "request"
    /\ LET c == th[t].conn IN
       \/ /\ conns' = [conns EXCEPT ![c].state = "open",
                                    ![c].reqs = Append(@, th[t].call)]
          /\ Goto(t, [th[t] EXCEPT
                        !.pc = "getresponse",
                        !.sent = Append(@, HttpRequest("POST", th[t].path, th[t].payload,
                                                       th[t].headers))])
       \/ /\ \E opened \in BOOLEAN :
                conns' = [conns EXCEPT ![c].state = IF opened THEN "open" ELSE @]
          /\ Raise(t, Error("OSError", "request failed"))
    /\ UNCHANGED <<files, ncalls, tmpseq, settings, dec>>

\* resp = conn.getresponse(): http.client closes the connection itself on a
\* ConnectionError and leaves it open on any other failure (a timeout)
GetResponse(t) ==
    /\ th[t].pc = "getresponse"
    /\ \/ /\ Goto(t, [th[t] EXCEPT !.pc = "read"])
          /\ UNCHANGED conns
       \/ /\ Raise(t, Error("ConnectionError", "connection reset"))
          /\ conns' = [conns EXCEPT ![th[t].conn].state = "closed"]
       \/ /\ Raise(t, Error("TimeoutError", "timed out"))
          /\ UNCHANGED conns
    /\ UNCHANGED <<files, ncalls, tmpseq, settings, dec>>

\* data = resp.read().decode("utf-8")
ReadDecode(t) ==
    /\ th[t].pc = "read"
    /\ \/ \E body \in ResponseBodies :
            IF body.utf8
            THEN Goto(t, [th[t] EXCEPT !.pc = "close", !.data = body.text])
            ELSE Raise(t, Error("UnicodeDecodeError", "invalid start byte"))
       \/ Raise(t, Error("http.client.IncompleteRead", "read failed"))
    /\ UNCHANGED <<conns, files, ncalls, tmpseq, settings, dec>>

\* conn.close()
Close(t) ==
    /\ th[t].pc = "close"
    /\ conns' = [conns EXCEPT ![th[t].conn].state = "closed"]
    /\ Goto(t, [th[t] EXCEPT !.pc = "loads"])
    /\ UNCHANGED <<files, ncalls, tmpseq, settings, dec>>

\* return json.loads(data)
JsonLoads(t) ==
    /\ th[t].pc = "loads"
    /\ LET r == Loads(th[t].data) IN
       IF r.ok THEN Goto(t, [th[t] EXCEPT !.pc = "returned", !.result = r.val])
       ELSE Raise(t, Error("json.JSONDecodeError", "Expecting value"))
    /\ UNCHANGED <<conns, files, ncalls, tmpseq, settings, dec>>

(***************************************************************************)
(* views.py: JrpcClientView.post                                           *)
(***************************************************************************)
HttpAnswer(status, errors, error, data) ==
    [status |-> status, errors |-> errors, error |-> error, data |-> data]
InternalServerError == HttpAnswer(500, NoErrors, Fixed("Internal Server Error", ""), JNull)

\* the strings that hold the text "error"
HoldError == {"error", "server error"}

\* 'error' in response: a key of a dict, an item of a list, a part of a str;
\* a TypeError for anything else
InResponse(response) ==
    CASE response.t = "obj" -> [ok |-> TRUE, val |-> JHas(response, "error")]
      [] response.t = "arr" ->
            [ok |-> TRUE, val |-> \E i \in 1..Len(response.items) : response.items[i] = JStr("error")]
      [] response.t = "str" -> [ok |-> TRUE, val |-> response.s \in HoldError]
      [] OTHER -> [ok |-> FALSE, val |-> FALSE]

\* post, from the test of the response to its return, the except clause included
ViewAnswer(response) ==
    LET m == InResponse(response) IN
    IF ~m.ok THEN InternalServerError
    ELSE IF m.val
    THEN IF response.t # "obj" THEN InternalServerError
         ELSE LET d == DecodeJrpcError(JAt(response, "error")) IN
              IF d.ok THEN HttpAnswer(400, NoErrors, d.msg, JNull)
              ELSE InternalServerError
    ELSE HttpAnswer(200, NoErrors, NoMessage, response)

\* json.loads(form.cleaned_data['params']) if form.cleaned_data['params'] else None
ViewParams(params) ==
    IF params.len # 0 THEN Loads(params.text) ELSE [ok |-> TRUE, val |-> JNull]

\* post, up to the transport's call
Post(t) ==
    /\ th[t].role = "web"
    /\ th[t].pc = "idle"
    /\ \E m \in FormMethods, p \in FormParams :
         LET data == [method |-> m, params |-> p]
             blank == [Idle(th[t].role, th[t].server) EXCEPT !.op = "post", !.form = data]
             server == JrpcServerInit(ViewUrl, "2.0", "http",
                                      settings.JRPC_CERT, settings.JRPC_KEY)
             params == ViewParams(p)
         IN IF ~FormIsValid(data)
            THEN /\ Goto(t, [blank EXCEPT !.pc = "responded",
                                          !.response = HttpAnswer(400, FormErrors(data),
                                                                  NoMessage, JNull)])
                 /\ UNCHANGED ncalls
            ELSE /\ ncalls < MaxCalls
                 /\ server.ok
                 /\ IF params.ok
                    THEN /\ Goto(t, CallFrame(blank, server.self[1], m.text, params.val,
                                              None, "post", ncalls + 1))
                         /\ ncalls' = ncalls + 1
                    ELSE /\ Goto(t, [blank EXCEPT !.pc = "raised",
                                        !.err = Error("json.JSONDecodeError", "Expecting value")])
                         /\ UNCHANGED ncalls
    /\ UNCHANGED <<conns, files, tmpseq, settings, dec>>

\* post, from call_method's return or exception to the JsonResponse
PostRespond(t) ==
    /\ th[t].op = "post"
    /\ th[t].pc \in {"returned", "raised"}
    /\ Goto(t, [th[t] EXCEPT !.pc = "responded",
                             !.response = IF th[t].pc = "raised" THEN InternalServerError
                                          ELSE ViewAnswer(th[t].result)])
    /\ UNCHANGED <<conns, files, ncalls, tmpseq, settings, dec>>

\* The caller lets go of its JrpcServer (del server, or the name's scope ends)
Discard(t) ==
    /\ th[t].pc = "idle"
    /\ th[t].server # None
    /\ Goto(t, Idle(th[t].role, None))
    /\ UNCHANGED <<conns, files, ncalls, tmpseq, settings, dec>>

\* The operation is over: its locals are gone, the JrpcServer held is kept
Finish(t) ==
    /\ \/ th[t].pc = "responded"
       \/ th[t].pc \in {"returned", "raised"} /\ th[t].op \in {"construct", "call"}
    /\ Goto(t, Idle(th[t].role, th[t].server))
    /\ UNCHANGED <<conns, files, ncalls, tmpseq, settings, dec>>

(***************************************************************************)
(* The specification: one caller, any sequence of operations.              *)
(***************************************************************************)
Roles == {"library", "web"}
NoSettings == [JRPC_CERT |-> None, JRPC_KEY |-> None]

Init ==
    /\ \E role \in Roles :
          /\ th = [t \in {1} |-> Idle(role, None)]
          /\ settings \in IF role = "web" THEN SettingsChoices ELSE {NoSettings}
    /\ conns = <<>>
    /\ files = {}
    /\ ncalls = 0
    /\ tmpseq = 0
    /\ dec = NoDecode

DoConstruct == \E t \in Threads : Construct(t)
DoCallMethod == \E t \in Threads : CallMethod(t)
DoWebSocketCall == \E t \in Threads : WebSocketCall(t)
DoValidateScheme == \E t \in Threads : ValidateScheme(t)
DoCreateConnection == \E t \in Threads : CreateConnection(t)
DoCreateSslContext == \E t \in Threads : CreateSslContext(t)
DoCreateTempCertKeyFiles == \E t \in Threads : CreateTempCertKeyFiles(t)
DoCreateKeyFile == \E t \in Threads : CreateKeyFile(t)
DoWriteCertFile == \E t \in Threads : WriteCertFile(t)
DoWriteKeyFile == \E t \in Threads : WriteKeyFile(t)
DoLoadCertChain == \E t \in Threads : LoadCertChain(t)
DoHttpsConnection == \E t \in Threads : HttpsConnection(t)
DoCreatePayload == \E t \in Threads : CreatePayload(t)
DoRequest == \E t \in Threads : Request(t)
DoGetResponse == \E t \in Threads : GetResponse(t)
DoReadDecode == \E t \in Threads : ReadDecode(t)
DoClose == \E t \in Threads : Close(t)
DoJsonLoads == \E t \in Threads : JsonLoads(t)
DoPost == \E t \in Threads : Post(t)
DoPostRespond == \E t \in Threads : PostRespond(t)
DoFinish == \E t \in Threads : Finish(t)
DoDiscard == \E t \in Threads : Discard(t)

Next ==
    \/ DoConstruct
    \/ DoCallMethod
    \/ DoWebSocketCall
    \/ DoValidateScheme
    \/ DoCreateConnection
    \/ DoCreateSslContext
    \/ DoCreateTempCertKeyFiles
    \/ DoCreateKeyFile
    \/ DoWriteCertFile
    \/ DoWriteKeyFile
    \/ DoLoadCertChain
    \/ DoHttpsConnection
    \/ DoCreatePayload
    \/ DoRequest
    \/ DoGetResponse
    \/ DoReadDecode
    \/ DoClose
    \/ DoJsonLoads
    \/ DoPost
    \/ DoPostRespond
    \/ DoFinish
    \/ DoDiscard

Spec == Init /\ [][Next]_vars

(***************************************************************************)
(* _decode_jrpc_error on its own: any error object with an integer code.   *)
(***************************************************************************)
\* how far beyond the reserved range's two ends the codes are taken
ScanMargin == 5

ScanCodes ==
    ((SERVER_ERROR_LO - ScanMargin)..(SERVER_ERROR_HI + ScanMargin))
    \cup ((INTERNAL_ERROR - 1)..(INVALID_REQUEST + 1))
    \cup ((PARSE_ERROR - 1)..(PARSE_ERROR + 1))
    \cup {-32768, -1, 0, 1, 32000, 32700}

\* {"code": c} with or without "message" and "data", and {} without "code"
DecoderInputs ==
    { ErrorObject(JNum(c), JStr("m"), JArr(<<JNum(1)>>)) : c \in ScanCodes }
    \cup { JObj(<<"code">>, <<JNum(c)>>) : c \in ScanCodes }
    \cup { JObj(<<"message", "code">>, <<JStr("m"), JNum(c)>>) : c \in ScanCodes }
    \cup { JObj(<<>>, <<>>), JObj(<<"message">>, <<JStr("m")>>) }

InitDecoder ==
    /\ th = <<>>
    /\ conns = <<>>
    /\ files = {}
    /\ ncalls = 0
    /\ tmpseq = 0
    /\ settings = NoSettings
    /\ \E e \in DecoderInputs : dec = [NoDecode EXCEPT !.pc = "ready", !.error_data = e]

\* message = self._decode_jrpc_error(error_data)
Decode ==
    /\ dec.pc = "ready"
    /\ LET d == DecodeJrpcError(dec.error_data) IN
       dec' = [dec EXCEPT !.pc = "done", !.ok = d.ok, !.msg = d.msg]
    /\ UNCHANGED <<th, conns, files, ncalls, tmpseq, settings>>

NextDecoder == Decode

SpecDecoder == InitDecoder /\ [][NextDecoder]_vars

(***************************************************************************)
(* Concurrent callers: several threads inside call_method at the same      *)
(* time, on one JrpcServer or on several, all through the module's one     *)
(* http_transport.  call_method and HttpTransport assign no attribute of   *)
(* self, so a JrpcServer shared by two callers is the same value in both.  *)
(***************************************************************************)
\* how many callers run at once
NumCallers == 2

Callers == 1..NumCallers

\* The JrpcServer objects the callers hold, each with its credential material
ConcurrentServers ==
    { JrpcServerInit(HttpsUrl, "2.0", "http", Some("CERT_PEM"), Some("KEY_PEM")).self,
      JrpcServerInit(HttpsUrl, "2.0", "http", Some("CERT_PEM_2"), Some("KEY_PEM_2")).self,
      JrpcServerInit(HttpsUrl, "2.0", "http", None, None).self }

InitConcurrent ==
    /\ \E held \in [Callers -> ConcurrentServers] :
          th = [t \in Callers |-> Idle("library", held[t])]
    /\ settings = NoSettings
    /\ conns = <<>>
    /\ files = {}
    /\ ncalls = 0
    /\ tmpseq = 0
    /\ dec = NoDecode

\* server.call_method("test_method", {"param": "value"}, call_id), each caller
\* passing its own number as call_id
ConcurrentCall(t) ==
    /\ th[t].pc = "idle"
    /\ th[t].server # None
    /\ Goto(t, CallFrame(Idle(th[t].role, th[t].server), th[t].server[1], "test_method",
                         JObj(<<"param">>, <<JStr("value")>>), Some(t), "call", ncalls + 1))
    /\ ncalls' = ncalls + 1
    /\ UNCHANGED <<conns, files, tmpseq, settings, dec>>

DoConcurrentCall == \E t \in Threads : ConcurrentCall(t)

NextConcurrent ==
    \/ DoConcurrentCall
    \/ DoValidateScheme
    \/ DoCreateConnection
    \/ DoCreateSslContext
    \/ DoCreateTempCertKeyFiles
    \/ DoCreateKeyFile
    \/ DoWriteCertFile
    \/ DoWriteKeyFile
    \/ DoLoadCertChain
    \/ DoHttpsConnection
    \/ DoCreatePayload
    \/ DoRequest
    \/ DoGetResponse
    \/ DoReadDecode
    \/ DoClose
    \/ DoJsonLoads

SpecConcurrent == InitConcurrent /\ [][NextConcurrent]_vars

(***************************************************************************)
(* What is checked.                                                        *)
(***************************************************************************)
\* The callers inside, or just out of, HttpTransport.call
HttpCallers == { t \in Threads : th[t].call # 0 /\ th[t].transport = "http" }
\* The connections and the temporary files made for call c
ConnsOf(c) == { i \in DOMAIN conns : conns[i].call = c }
FilesOf(c) == { f \in files : f.call = c }
\* HttpTransport.call has returned or raised
CallOver(t) == th[t].pc \in {"returned", "raised", "responded"}

\* C1: when HttpTransport.call returns or raises, no connection created for
\* the call is still open, whatever the exit path (response parsed, request /
\* getresponse / read failed, body not UTF-8, body not JSON).
C1_ClosedOnEveryExit ==
    \A t \in HttpCallers :
        CallOver(t) => \A i \in ConnsOf(th[t].call) : conns[i].state # "open"

\* C2: once an https call with certificate data and key data is over, whether
\* it returned or raised, no temporary file created for it exists.
C2_NoArtifactLeft ==
    \A t \in HttpCallers :
        ( /\ CallOver(t)
          /\ th[t].scheme = "https"
          /\ th[t].certdata \notin {None, Some("")}
          /\ th[t].keydata \notin {None, Some("")} )
        => FilesOf(th[t].call) = {}

\* C3: a call with a scheme other than "http" and "https" ends in the
\* unsupported-scheme error that names the scheme, and at no moment of the call
\* is there a connection, an SSL context, a temporary file, a payload or a
\* request of it.
C3_UnsupportedSchemeFirst ==
    \A t \in HttpCallers :
        th[t].scheme \notin {"http", "https"} =>
            /\ th[t].pc \in {"validate_scheme", "raised"}
            /\ th[t].pc = "raised" =>
                  /\ th[t].err.exc = "ValueError"
                  /\ th[t].err.msg = "Scheme \"{}\" is not supported. Use \"http\" or \"https\"."
                  /\ th[t].err.arg = th[t].scheme
            /\ ConnsOf(th[t].call) = {}
            /\ FilesOf(th[t].call) = {}
            /\ th[t].conn = 0
            /\ ~th[t].context.made
            /\ th[t].payload = <<>>
            /\ th[t].sent = <<>>

\* C3's case: JrpcServer("ftp://example.com/api", ...).call_method has raised
C3_Witness ==
    \E t \in HttpCallers :
        /\ th[t].op = "call"
        /\ th[t].pc = "raised"
        /\ th[t].scheme = "ftp"
        /\ th[t].server[1].url_parser.url = <<"ftp", ":", "//", "example.com", "/api">>

\* C4: JrpcServer(url, version, ...) returns an instance that keeps version
\* unchanged when version is "2.0", and raises the unsupported-version error
\* carrying version otherwise, leaving the caller without an instance; so every
\* instance held and every transport call made has version "2.0".
C4_VersionCheckedAtConstruction ==
    \A t \in Threads :
        /\ th[t].op = "construct" =>
              IF th[t].cversion = "2.0"
              THEN /\ th[t].pc = "returned"
                   /\ th[t].server # None
                   /\ th[t].server[1].version = th[t].cversion
              ELSE /\ th[t].pc = "raised"
                   /\ th[t].err.exc = "ValueError"
                   /\ th[t].err.msg = "Version \"{}\" is not supported"
                   /\ th[t].err.arg = th[t].cversion
                   /\ th[t].server = None
                   /\ th[t].call = 0
        /\ th[t].server # None => th[t].server[1].version = "2.0"
        /\ th[t].call # 0 => th[t].version = "2.0"

\* C4's case: JrpcServer(url, "1.0", http_transport) has raised
C4_Witness ==
    \E t \in Threads :
        /\ th[t].op = "construct"
        /\ th[t].pc = "raised"
        /\ th[t].cversion = "1.0"
        /\ ncalls = 0

\* The URL string of the JrpcServer whose call the caller is in
CallUrl(t) == IF th[t].op = "post" THEN ViewUrl ELSE th[t].server[1].url_parser.url
\* A URL string with no "scheme:" in front, with no host after "//"
LacksScheme(url) == ~(Len(url) >= 2 /\ url[2] = ":")
LacksHost(url) ==
    ~\E i \in 1..(Len(url) - 1) : url[i] = "//" /\ url[i + 1] \notin (PathPieces \cup {":"})
BeforeConnection ==
    {"validate_scheme", "create_connection", "create_ssl_context",
     "create_temp_cert_key_files", "create_keyfile", "write_certfile", "write_keyfile",
     "load_cert_chain", "https_connection"}
AfterRequest == {"getresponse", "read", "close", "loads", "returned"}

Scalar(v) == v.t \notin {"obj", "arr", "null"}
ParamsErrorText == "Params \"{}\" are invalid"

\* C6 as claimed: when a call with a supported scheme and scalar params fails
\* with the invalid-params error, no connection has been created for the call
\* and no request has been sent.
C6_InvalidParamsBeforeConnection ==
    \A t \in HttpCallers :
        ( /\ Scalar(th[t].params)
          /\ th[t].scheme \in {"http", "https"}
          /\ th[t].pc = "raised"
          /\ th[t].err.msg = ParamsErrorText )
        => (ConnsOf(th[t].call) = {} /\ th[t].sent = <<>>)

\* C6 as amended: a call with a supported scheme and scalar params never builds
\* a payload and never sends a request; it fails with the invalid-params error
\* quoting the params, which surfaces after the call's connection object has
\* been created: that connection exists, is unconnected and has carried no
\* request (a call whose connection cannot be created fails earlier, with that
\* error).
C6_InvalidParamsBeforeRequest ==
    \A t \in HttpCallers :
        (Scalar(th[t].params) /\ th[t].scheme \in {"http", "https"}) =>
            /\ th[t].pc \in BeforeConnection \cup {"create_payload", "raised"}
            /\ th[t].payload = <<>>
            /\ th[t].sent = <<>>
            /\ \A i \in ConnsOf(th[t].call) : conns[i].state = "new" /\ conns[i].reqs = <<>>
            /\ (th[t].pc = "raised" /\ th[t].conn # 0) =>
                  /\ th[t].err.exc = "ValueError"
                  /\ th[t].err.msg = ParamsErrorText
                  /\ th[t].err.val = th[t].params
            /\ (th[t].pc = "raised" /\ th[t].err.msg = ParamsErrorText) =>
                  ConnsOf(th[t].call) = {th[t].conn}

\* C6's case: call_method(method, "not-an-object") over https has raised
C6_Witness ==
    \E t \in HttpCallers :
        /\ th[t].pc = "raised"
        /\ th[t].scheme = "https"
        /\ th[t].params = JStr("not-an-object")
        /\ th[t].err.val = JStr("not-an-object")
        /\ th[t].conn # 0

\* C7: a call with object params over http or https sends at most one request,
\* and exactly one once the request statement is passed: a POST to the URL's
\* path with the one header Content-Type: application/json and a body that
\* parses to {jsonrpc: "2.0", method: the method given, params: the params
\* given, id: the call_id given, 1 if none}; the same for http and https; the
\* connection is an HTTPSConnection exactly for an https URL; and what is
\* returned is the JSON value the response body is the text of.
C7_OnePostWithThePayload ==
    \A t \in HttpCallers :
        th[t].params.t = "obj" =>
            LET url == CallUrl(t)
                expected == JObj(<<"jsonrpc", "method", "params", "id">>,
                                 <<JStr("2.0"), JStr(th[t].method), th[t].params,
                                   JNum(IF th[t].id_arg = None THEN 1 ELSE th[t].id_arg[1])>>)
            IN /\ Len(th[t].sent) <= 1
               /\ th[t].pc \in AfterRequest => Len(th[t].sent) = 1
               /\ \A k \in DOMAIN th[t].sent :
                     /\ th[t].sent[k].verb = "POST"
                     /\ th[t].sent[k].url = <<url[Len(url)]>>
                     /\ th[t].sent[k].headers = <<<<"Content-Type", "application/json">>>>
                     /\ Loads(th[t].sent[k].body) = [ok |-> TRUE, val |-> expected]
               /\ th[t].conn # 0 =>
                     conns[th[t].conn].kind = IF url[1] \in {"https", "HTTPS"}
                                              THEN "HTTPSConnection" ELSE "HTTPConnection"
               /\ th[t].pc = "returned" =>
                     \E v \in ResponseValues : th[t].data = Dumps(v) /\ th[t].result = v

\* C7's case: the https test's call, with call_id given, has returned
C7_Witness ==
    \E t \in HttpCallers :
        /\ th[t].op = "call"
        /\ th[t].pc = "returned"
        /\ CallUrl(t) = HttpsUrl
        /\ th[t].params = JObj(<<"param">>, <<JStr("value")>>)
        /\ th[t].id_arg = Some(7)
        /\ th[t].result = RpcResult(JStr("success"))
        /\ conns[th[t].conn].kind = "HTTPSConnection"

\* C8: for an error object whose code is an integer (or is missing, which
\* counts as -1) the decoder answers Parse error for -32700, Invalid Request
\* for -32600, Method not found for -32601, Invalid params for -32602, Internal
\* error for -32603, Server error for -32099..-32000, both ends included, and
\* Unknown error for every other code; Server error and Unknown error carry the
\* error's message and data.
C8_DecoderTable ==
    dec.pc = "done" =>
        LET e == dec.error_data
            c == IF JHas(e, "code") THEN JAt(e, "code").n ELSE -1
            head == CASE c = -32700 -> "Parse error"
                      [] c = -32600 -> "Invalid Request"
                      [] c = -32601 -> "Method not found"
                      [] c = -32602 -> "Invalid params"
                      [] c = -32603 -> "Internal error"
                      [] c >= -32099 /\ c <= -32000 -> "Server error"
                      [] OTHER -> "Unknown error"
        IN /\ dec.ok
           /\ dec.msg.head = head
           /\ c = -32700 => dec.msg.text = "Invalid JSON was received by the server."
           /\ head \in {"Server error", "Unknown error"} =>
                 /\ Len(dec.msg.echo) = 2
                 /\ JHas(e, "message") => dec.msg.echo[1] = JAt(e, "message")
                 /\ JHas(e, "data") => dec.msg.echo[2] = JAt(e, "data")
           /\ head \notin {"Server error", "Unknown error"} => dec.msg.echo = <<>>

\* C8's case: the lower end of the reserved range has been decoded
C8_Witness ==
    /\ dec.pc = "done"
    /\ dec.error_data = ErrorObject(JNum(-32099), JStr("m"), JArr(<<JNum(1)>>))
    /\ dec.msg.head = "Server error"
    /\ dec.msg.echo = <<JStr("m"), JArr(<<JNum(1)>>)>>

\* C9: the view answers 400 with the field errors and makes no call when the
\* form is invalid; otherwise it makes one call and answers 500 if that raised,
\* 400 with the decoded error whenever the response has an error member, and
\* 200 with the response unchanged when it has none.
C9_PostOutcome ==
    \A t \in Threads :
        (th[t].role = "web" /\ th[t].pc = "responded") =>
            LET m == th[t].form.method
                p == th[t].form.params
                invalid == \/ m.len = 0
                           \/ m.len > 100
                           \/ p.len > 1000
                           \/ p.len > 0 /\ (~Loads(p.text).ok \/ Scalar(Loads(p.text).val))
                r == th[t].result
                errorMember == r.t = "obj" /\ \E i \in 1..Len(r.keys) : r.keys[i] = "error"
            IN IF invalid
               THEN /\ th[t].response.status = 400
                    /\ th[t].response.errors # NoErrors
                    /\ th[t].call = 0
               ELSE /\ th[t].call # 0
                    /\ th[t].err # NoError => th[t].response.status = 500
                    /\ (th[t].err = NoError /\ errorMember) =>
                          /\ th[t].response.status = 400
                          /\ th[t].response.error.head # ""
                    /\ (th[t].err = NoError /\ ~errorMember) =>
                          /\ th[t].response.status = 200
                          /\ th[t].response.data = r

NetworkErrors == {"OSError", "ConnectionError", "TimeoutError", "http.client.IncompleteRead"}

\* C10: every call creates at most one connection; a connection carries at
\* most one request, sent by the call that created it; a call sends at most one
\* request; and a call that the network fails ends raised with the network's
\* error, nothing returned.
C10_OneAttemptPerCall ==
    /\ \A c \in 1..ncalls : Cardinality(ConnsOf(c)) <= 1
    /\ \A i \in DOMAIN conns :
          /\ Len(conns[i].reqs) <= 1
          /\ \A k \in DOMAIN conns[i].reqs : conns[i].reqs[k] = conns[i].call
    /\ \A t \in HttpCallers :
          /\ Len(th[t].sent) <= 1
          /\ th[t].conn # 0 =>
                /\ ConnsOf(th[t].call) = {th[t].conn}
                /\ Len(conns[th[t].conn].reqs) = Len(th[t].sent)
          /\ th[t].conn = 0 => th[t].sent = <<>>
          /\ th[t].err.exc \in NetworkErrors =>
                /\ th[t].pc \in {"raised", "responded"}
                /\ th[t].result = JNull
                /\ th[t].op = "call" => th[t].pc = "raised"

\* C10's case: a second call on the same JrpcServer, after a first that sent
\* its request, has been failed by the network
C10_Witness ==
    \E t \in HttpCallers :
        /\ th[t].op = "call"
        /\ th[t].pc = "raised"
        /\ th[t].err.exc = "TimeoutError"
        /\ th[t].call = 2
        /\ Len(conns) = 2
        /\ conns[1].reqs = <<1>>
        /\ conns[2].reqs = <<2>>

\* The params member of the payload the call built
PayloadParams(t) == JAt(Loads(th[t].payload).val, "params")

\* C11: in every payload HttpTransport has built, the params member is the
\* params supplied when those are an object or an array (the empty object and
\* the empty array included), it is the empty object when params is absent,
\* and it is never of another JSON type than the params supplied.
C11_ParamsMemberKept ==
    \A t \in HttpCallers :
        th[t].payload # <<>> =>
            /\ Loads(th[t].payload).ok
            /\ JHas(Loads(th[t].payload).val, "params")
            /\ th[t].params.t \in {"obj", "arr"} => PayloadParams(t) = th[t].params
            /\ th[t].params = JNull => PayloadParams(t) = JObj(<<>>, <<>>)
            /\ PayloadParams(t) = JObj(<<>>, <<>>) =>
                  th[t].params \in {JNull, JObj(<<>>, <<>>)}
            /\ th[t].params # JNull => PayloadParams(t).t = th[t].params.t

\* The certificate and key a call is to present, <<>> when it presents none
OwnChain(t) ==
    IF th[t].scheme = "https" /\ UsesCredentials(th[t].certdata, th[t].keydata)
    THEN <<th[t].certdata[1], th[t].keydata[1]>> ELSE <<>>
\* The files on disk under a name
FilesNamed(name) == { f \in files : f.name = name }
\* The callers a step moved
Moved == { t \in Threads : th'[t] # th[t] }

\* What every call owns, at every moment of concurrent calls
C12_EachCallItsOwn ==
    /\ \A f \in files, g \in files : f.name = g.name => f = g
    /\ \A t \in HttpCallers :
          /\ Cardinality(ConnsOf(th[t].call)) <= 1
          /\ Cardinality(FilesOf(th[t].call)) <= 2
          /\ \A u \in HttpCallers \ {t} :
                /\ th[u].call # th[t].call
                /\ th[t].conn # 0 => th[u].conn # th[t].conn
                /\ th[t].certfile # 0 => th[t].certfile \notin {th[u].certfile, th[u].keyfile}
                /\ th[t].keyfile # 0 => th[t].keyfile \notin {th[u].certfile, th[u].keyfile}
          /\ th[t].certfile # 0 =>
                \E f \in files : /\ FilesNamed(th[t].certfile) = {f}
                                 /\ f.call = th[t].call
                                 /\ f.data \in {"", th[t].certdata[1]}
          /\ th[t].keyfile # 0 =>
                \E f \in files : /\ FilesNamed(th[t].keyfile) = {f}
                                 /\ f.call = th[t].call
                                 /\ f.data \in {"", th[t].keydata[1]}
          /\ th[t].context.chain \in {<<>>, OwnChain(t)}
          /\ th[t].conn # 0 =>
                /\ conns[th[t].conn].call = th[t].call
                /\ conns[th[t].conn].chain = OwnChain(t)
                /\ \A k \in DOMAIN conns[th[t].conn].reqs :
                      conns[th[t].conn].reqs[k] = th[t].call
          /\ \A k \in DOMAIN th[t].sent :
                JAt(Loads(th[t].sent[k].body).val, "id") = JNum(th[t].call_id)

\* What a step of one call leaves alone
C12_StepTouchesOwnOnly ==
    /\ \A t \in Threads : th'[t].server = th[t].server
    /\ \A f \in files :
          /\ \E g \in files' : g.name = f.name /\ g.call = f.call
          /\ f \notin files' => \E t \in Moved : th[t].call = f.call
    /\ \A i \in DOMAIN conns :
          /\ i \in DOMAIN conns'
          /\ conns'[i] # conns[i] => \E t \in Moved : th[t].call = conns[i].call

\* C12: with several call_method invocations in flight at once, on the same
\* JrpcServer or on different ones, each call has its own connection and its
\* own temporary certificate and key files, under names no other call uses;
\* the TLS context and the connection of a call carry only that call's own
\* certificate and key; a step of one call changes, and removes, no file and no
\* connection of another call; and no step changes the JrpcServer a caller
\* holds (its URL, version, transport and credentials).
C12_CallsDoNotInterfere == []C12_EachCallItsOwn /\ [][C12_StepTouchesOwnOnly]_vars

\* C12's case: two callers with different credentials went through the
\* transport step by step in turn (the temporary names alternate) and both
\* returned, each over a connection that carries its own certificate and key
C12_Witness ==
    /\ th[1].pc = "returned"
    /\ th[2].pc = "returned"
    /\ th[1].certfile = 1 /\ th[2].certfile = 2
    /\ th[1].keyfile = 3 /\ th[2].keyfile = 4
    /\ conns[th[1].conn].chain = <<"CERT_PEM", "KEY_PEM">>
    /\ conns[th[2].conn].chain = <<"CERT_PEM_2", "KEY_PEM_2">>
    /\ conns[th[1].conn].state = "closed"
    /\ conns[th[2].conn].state = "closed"

=============================================================================
